---- MODULE Spec2Model ----
(***************************************************************************)
(* A model of the CILISSA metric engine: Image / ImagePair                  *)
(* (src/cilissa/images.py) and the full-reference metrics                   *)
(* (src/cilissa/metrics.py).                                                *)
(*                                                                          *)
(* A numpy array is a record [dtype, shape, data]: data is the buffer in    *)
(* row-major order, indexed from 1.  Pixel values are integers; a float     *)
(* array holds the same integers (every value met here is exactly           *)
(* representable), so a mean is kept as the exact fraction <<sum, count>>.   *)
(* A Python call ends in an outcome: Return(v) or Raise(exception name).    *)
(***************************************************************************)
EXTENDS Integers, Sequences, FiniteSets, TLC

\* ------------------------------------------------------------- bounds
\* Pixel values of the generated images are 0..MaxPix.
MaxPix == 2
\* Height and width of the images of the pixel-level specification.
MaxPixDim == 2
\* Height and width of the images of the object-level specifications.
MaxDim == 3
\* Channels of a 3-D image are 1..MaxChan.
MaxChan == 3
\* sigma and truncate are multiples of 1/Denom, given to SSIM from -1..MaxParam.
Denom == 2
MaxParam == 2
\* K1 and K2 (in hundredths) are given to SSIM from -1..MaxK.
MaxK == 1
\* ImagePair is indexed with the keys -1..MaxKey.
MaxKey == 2

\* ------------------------------------------------------------- outcomes
NoVal == [tag |-> "none", args |-> <<>>]
Return(v) == [kind |-> "return", exc |-> "", val |-> v]
Raise(e) == [kind |-> "raise", exc |-> e, val |-> NoVal]
IsReturn(out) == out.kind = "return"
IsRaise(out) == out.kind = "raise"

\* An optional argument: <<>> is None, <<n>> the value n.
None == <<>>

\* ------------------------------------------------------------- numpy arrays
RECURSIVE ProdTo(_, _)
ProdTo(s, n) == IF n = 0 THEN 1 ELSE s[n] * ProdTo(s, n - 1)
Prod(s) == ProdTo(s, Len(s))

RECURSIVE SumTo(_, _)
SumTo(s, n) == IF n = 0 THEN 0 ELSE s[n] + SumTo(s, n - 1)
SumSeq(s) == SumTo(s, Len(s))

RECURSIVE MaxTo(_, _)
MaxTo(s, n) ==
  IF n = 1 THEN s[1]
  ELSE LET m == MaxTo(s, n - 1) IN IF s[n] > m THEN s[n] ELSE m
MaxSeq(s) == MaxTo(s, Len(s))

Size(shape) == Prod(shape)

\* The strides (in elements) of a row-major array of this shape.
RECURSIVE Strides(_)
Strides(shape) ==
  IF shape = <<>> THEN <<>> ELSE <<Prod(Tail(shape))>> \o Strides(Tail(shape))

\* numpy pads the shorter shape with leading 1s before broadcasting.
RECURSIVE PadShape(_, _)
PadShape(shape, n) == IF Len(shape) >= n THEN shape ELSE PadShape(<<1>> \o shape, n)

MaxOf(a, b) == IF a > b THEN a ELSE b

BroadcastablePadded(p1, p2) ==
  \A d \in 1..Len(p1) : p1[d] = p2[d] \/ p1[d] = 1 \/ p2[d] = 1

Broadcastable(s1, s2) ==
  BroadcastablePadded(PadShape(s1, MaxOf(Len(s1), Len(s2))), PadShape(s2, MaxOf(Len(s1), Len(s2))))

BroadcastShapePadded(p1, p2) ==
  SubSeq([d \in 1..Len(p1) |-> MaxOf(p1[d], p2[d])], 1, Len(p1))

BroadcastShape(s1, s2) ==
  BroadcastShapePadded(PadShape(s1, MaxOf(Len(s1), Len(s2))), PadShape(s2, MaxOf(Len(s1), Len(s2))))

\* The position (1-based) of the element of an array of padded shape p and
\* strides ps that position k (1-based, row-major) of the broadcast result of
\* shape rshape and strides rs reads: an axis of length 1 is read at index 0
\* whatever the result's index.
BroadcastAt(k, p, ps, rshape, rs) ==
  1 + SumSeq([d \in 1..Len(rshape) |->
        IF p[d] = 1 THEN 0 ELSE (((k - 1) \div rs[d]) % rshape[d]) * ps[d]])

BroadcastIndexOf(p, ps, rshape, rs, n) ==
  SubSeq([k \in 1..n |-> BroadcastAt(k, p, ps, rshape, rs)], 1, n)

BroadcastIndexPadded(p, rshape) ==
  BroadcastIndexOf(p, Strides(p), rshape, Strides(rshape), Size(rshape))

BroadcastIndex(shape, rshape) == BroadcastIndexPadded(PadShape(shape, Len(rshape)), rshape)

\* x - y as unsigned 8-bit integers give it: what the subtraction would be were
\* it taken on the stored buffers, before the promotion to float.
WrapSub(x, y) == (x - y) % 256

\* im1 - im2 on float arrays, one element: exact, never reduced modulo 256.
Subtract(x, y) == x - y

Square(x) == x * x

\* np.square(im1 - im2) with a subtraction that saturates at 0, as an unsigned
\* saturating subtraction (cv2.subtract) does.
SquaredDiffSaturating(a, b) ==
  LET Data(ad, bd, ia, ib, n) ==
        SubSeq([k \in 1..n |-> Square(MaxOf(0, ad[ia[k]] - bd[ib[k]]))], 1, n)
      On(rshape) ==
        [dtype |-> a.dtype, shape |-> rshape,
         data |-> Data(a.data, b.data, BroadcastIndex(a.shape, rshape),
                       BroadcastIndex(b.shape, rshape), Size(rshape))]
  IN On(BroadcastShape(a.shape, b.shape))

\* np.square(im1 - im2): the elementwise squared difference under broadcasting.
SquaredDiff(a, b) ==
  LET Data(ad, bd, ia, ib, n) ==
        SubSeq([k \in 1..n |-> Square(Subtract(ad[ia[k]], bd[ib[k]]))], 1, n)
      On(rshape) ==
        [dtype |-> a.dtype, shape |-> rshape,
         data |-> Data(a.data, b.data, BroadcastIndex(a.shape, rshape),
                       BroadcastIndex(b.shape, rshape), Size(rshape))]
  IN On(BroadcastShape(a.shape, b.shape))

RECURSIVE GCD(_, _)
GCD(a, b) == IF b = 0 THEN a ELSE GCD(b, a % b)

Fraction(total, n, g) == <<total \div g, n \div g>>

\* np.mean(arr, dtype=np.float64): the exact mean as a fraction in lowest terms.
Mean(arr) ==
  LET Reduced(total, n) == Fraction(total, n, GCD(total, n))
  IN Reduced(SumSeq(arr.data), Size(arr.shape))

\* ------------------------------------------------------------- Image
VARIABLES
  images,   \* Image object id -> its pixel buffer (Image.im)
  pair,     \* the ImagePair: [ref |-> Image id, A |-> Image id]
  ssim,     \* the SSIM instance: <<>> before a successful construction, else <<fields>>
  uiqi,     \* the UIQI instance's fields
  vifp,     \* the VIFP instance's fields
  sam,      \* the SAM instance's fields
  run,      \* the locals of a VIFP.analyze call in progress (see Idle)
  last      \* the last call: [op, args, out]

vars == <<images, pair, ssim, uiqi, vifp, sam, run, last>>

ImgIds == {1, 2}

\* np.result_type(self.im, np.float32)
FloatType(dtype) ==
  CASE dtype = "uint8" -> "float32"
    [] dtype = "uint16" -> "float32"
    [] dtype = "float32" -> "float32"
    [] dtype = "float64" -> "float64"

\* Image.as_float: np.asarray(self.im, dtype=float_type).  np.asarray copies only
\* when the dtype changes: base is the Image whose stored buffer the returned
\* array IS (no copy was made), or 0 for a new array.
as_float(imgs, id) ==
  LET im == imgs[id]
      float_type == FloatType(im.dtype)
  IN [dtype |-> float_type, shape |-> im.shape, data |-> im.data,
      base |-> IF float_type = im.dtype THEN id ELSE 0]

\* Image.channels_num
channels_num(im) == IF Len(im.shape) = 2 THEN 1 ELSE im.shape[Len(im.shape)]

\* ------------------------------------------------------------- ImagePair
ImagePair(ref_image, A_image) == [ref |-> ref_image, A |-> A_image]

ImageVal(id) == [tag |-> "image", args |-> <<id>>]

\* __getitem__ as indexing the tuple (ref, A) would do it: Python's negative
\* indices count from the end.
getitem_tuple(p, key) ==
  IF key = 0 \/ key = -2 THEN Return(ImageVal(p.ref))
  ELSE IF key = 1 \/ key = -1 THEN Return(ImageVal(p.A))
  ELSE Raise("IndexError")

\* ImagePair.__getitem__
getitem(p, key) ==
  IF key = 0 THEN Return(ImageVal(p.ref))
  ELSE IF key = 1 THEN Return(ImageVal(p.A))
  ELSE Raise("IndexError")

\* ImagePair.__setitem__: the pair after the call, and the call's outcome.
setitem(p, key, value) ==
  IF key = 0 THEN [pair |-> [p EXCEPT !.ref = value], out |-> Return(NoVal)]
  ELSE IF key = 1 THEN [pair |-> [p EXCEPT !.A = value], out |-> Return(NoVal)]
  ELSE [pair |-> p, out |-> Raise("IndexError")]

matching_shape(imgs, p) == imgs[p.ref].shape = imgs[p.A].shape

matching_dtype(imgs, p) == imgs[p.ref].dtype = imgs[p.A].dtype

\* ImagePair.as_floats
as_floats(imgs, p) == <<as_float(imgs, p.ref), as_float(imgs, p.A)>>

\* ------------------------------------------------------------- MSE, PSNR
MeanVal(m) == [tag |-> "mean", args |-> m]

\* MSE.analyze.  numpy raises ValueError when im1 - im2 cannot be broadcast.
MSE_analyze(imgs, p) ==
  LET fl == as_floats(imgs, p)
  IN IF ~Broadcastable(fl[1].shape, fl[2].shape) THEN Raise("ValueError")
     ELSE Return(MeanVal(Mean(SquaredDiff(fl[1], fl[2]))))

\* 20 * np.log10(dmax) - 10 * np.log10(err), kept symbolic: err is a non-zero
\* mean, and np.log10(0) is -inf, so the value is finite exactly when dmax > 0.
LogFormula(dmax, err) ==
  [tag |-> IF dmax = 0 THEN "-inf" ELSE "20log10(dmax)-10log10(err)",
   args |-> <<dmax, err[1], err[2]>>]

InfVal == [tag |-> "inf", args |-> <<>>]

\* PSNR.analyze with the err == 0 branch left out.
PSNR_noguard(imgs, p) ==
  LET dmax == MaxSeq(imgs[getitem(p, 0).val.args[1]].data)
      err == MSE_analyze(imgs, p)
  IN IF IsRaise(err) THEN err ELSE Return(LogFormula(dmax, err.val.args))

\* PSNR.analyze with dmax taken from the measured image.
PSNR_measured_dmax(imgs, p) ==
  LET dmax == MaxSeq(imgs[getitem(p, 1).val.args[1]].data)
      err == MSE_analyze(imgs, p)
  IN IF IsRaise(err) THEN err
     ELSE IF err.val.args[1] = 0 THEN Return(InfVal)
     ELSE Return(LogFormula(dmax, err.val.args))

\* PSNR.analyze
PSNR_analyze(imgs, p) ==
  LET dmax == MaxSeq(imgs[getitem(p, 0).val.args[1]].data)
      err == MSE_analyze(imgs, p)
  IN IF IsRaise(err) THEN err
     ELSE IF err.val.args[1] = 0 THEN Return(InfVal)
     ELSE Return(LogFormula(dmax, err.val.args))

\* ------------------------------------------------------------- SSIM
\* SSIM.__init__: the fields are assigned and checked in the source's order
\* (K1, K2, sigma, truncate); a check that fails raises and no instance exists.
SSIM_init(channels, sigma, truncate, K1, K2) ==
  IF K1 < 0 THEN Raise("ValueError")
  ELSE IF K2 < 0 THEN Raise("ValueError")
  ELSE IF sigma < 0 THEN Raise("ValueError")
  ELSE IF truncate < 0 THEN Raise("ValueError")
  ELSE Return([tag |-> "SSIM", args |-> <<channels, sigma, truncate, K1, K2>>])

SSIM_fields(args) ==
  [channels_num |-> args[1], sigma |-> args[2], truncate |-> args[3], K1 |-> args[4], K2 |-> args[5]]

\* int(x) for the fraction x = num / den, den > 0: truncation toward zero.
IntOf(num, den) == IF num >= 0 THEN num \div den ELSE -((-num) \div den)

\* int(self.truncate * self.sigma) : the pad without the + 0.5.
PadNoRound(self) == IntOf(self.truncate * self.sigma, Denom * Denom)

\* pad = int(self.truncate * self.sigma + 0.5), sigma and truncate in units of 1/Denom.
Pad(self) == IntOf(2 * self.truncate * self.sigma + Denom * Denom, 2 * Denom * Denom)

\* cilissa.helpers.crop_array(S, pad) followed by .mean(): the shape of the map
\* without a border of pad on every side, or a size-validation error when
\* nothing is left of it.
crop_array(shape, pad) ==
  IF shape[1] - 2 * pad <= 0 \/ shape[2] - 2 * pad <= 0 THEN Raise("SizeValidationError")
  ELSE Return([tag |-> "shape", args |-> <<shape[1] - 2 * pad, shape[2] - 2 * pad>>])

\* SSIM.mssim_single_channel on two 2-D channels of shapes s1 and s2.  The
\* Gaussian filters keep the shape of their input; im1 * im2 is the first
\* operation on both channels and raises ValueError when they cannot be
\* broadcast; the SSIM map S has the broadcast shape.
mssim_single_channel(self, s1, s2) ==
  IF ~Broadcastable(s1, s2) THEN Raise("ValueError")
  ELSE crop_array(BroadcastShape(s1, s2), Pad(self))

\* self.channels_num or image_pair[0].channels_num: None and 0 are falsy.
ch_num(channels, imgs, p) ==
  IF channels = None \/ channels = <<0>> THEN channels_num(imgs[getitem(p, 0).val.args[1]])
  ELSE channels[1]

\* im[:, :, ch] on an array of this shape: IndexError on a 2-D array (too many
\* indices) and on a channel index out of bounds.
ChannelIndexOK(shape, ch) == Len(shape) = 3 /\ ch < shape[3]

\* The first channel, in loop order, whose slicing of im1 or im2 fails; -1 when none.
FirstBadChannel(s1, s2, n) ==
  LET bad == {ch \in 0..(n - 1) : ~ChannelIndexOK(s1, ch) \/ ~ChannelIndexOK(s2, ch)}
  IN IF bad = {} THEN -1 ELSE CHOOSE ch \in bad : \A other \in bad : ch <= other

ChannelShape(shape) == <<shape[1], shape[2]>>

\* The channel loop shared by SSIM, UIQI and VIFP: for ch in range(ch_num) the
\* channels im1[:, :, ch] and im2[:, :, ch] are sliced and the per-channel
\* function is called; every channel has the same shape, so the loop ends in
\* the first failure (a slicing IndexError, or the per-channel outcome of
\* channel 0) or in a value.  per is the per-channel outcome.
ChannelLoop(s1, s2, n, per) ==
  IF FirstBadChannel(s1, s2, n) = 0 THEN Raise("IndexError")
  ELSE IF IsRaise(per) THEN per
  ELSE IF FirstBadChannel(s1, s2, n) > 0 THEN Raise("IndexError")
  ELSE per

\* SSIM.analyze: the mean over the channels of the per-channel MSSIM, each the
\* mean of the SSIM map over the cropped region (kept symbolic: the number of
\* channels and the region's height and width).
SSIM_analyze(self, imgs, p) ==
  LET fl == as_floats(imgs, p)
      n == ch_num(self.channels_num, imgs, p)
      Per(s1, s2) == mssim_single_channel(self, ChannelShape(s1), ChannelShape(s2))
      Loop(per) == ChannelLoop(fl[1].shape, fl[2].shape, n, per)
      Result(out) ==
        IF IsRaise(out) THEN out
        ELSE Return([tag |-> "mssim", args |-> <<n>> \o out.val.args])
  IN Result(Loop(Per(fl[1].shape, fl[2].shape)))

\* ------------------------------------------------------------- UIQI, VIFP, SAM
\* q_map[s:-s, s:-s] along one axis of length n: Python slicing, where -0 is 0.
SliceLen(n, s) ==
  IF s = 0 THEN 0
  ELSE IF n - s > s THEN n - 2 * s
  ELSE 0

\* im[:, :, ch] of a 3-D array: the 2-D channel ch (0-based).
Channel(im, ch) ==
  LET n == im.shape[1] * im.shape[2]
      C == im.shape[3]
      d == im.data
  IN [shape |-> <<im.shape[1], im.shape[2]>>,
      data |-> SubSeq([k \in 1..n |-> d[(k - 1) * C + ch + 1]], 1, n)]

\* The index (0-based) that scipy's default boundary mode "reflect"
\* (d c b a | a b c d | d c b a) reads at index i of an axis of length n.
reflect(i, n) ==
  LET m == i % (2 * n) IN IF m < n THEN m ELSE 2 * n - 1 - m

\* uniform_filter1d along the rows (axis 1) of an h x w array, times size: the
\* window of pixel j starts size // 2 before it.
row_sums(x, h, w, size) ==
  SubSeq([k \in 1..(h * w) |->
            SumSeq(SubSeq([d \in 1..size |->
                     x[((k - 1) \div w) * w + reflect(((k - 1) % w) - (size \div 2) + d - 1, w) + 1]],
                   1, size))], 1, h * w)

\* uniform_filter1d along the columns (axis 0), times size.
column_sums(x, h, w, size) ==
  SubSeq([k \in 1..(h * w) |->
            SumSeq(SubSeq([d \in 1..size |->
                     x[reflect(((k - 1) \div w) - (size \div 2) + d - 1, h) * w + ((k - 1) % w) + 1]],
                   1, size))], 1, h * w)

\* uniform_filter(im, size) times size * size: the sums over the size x size
\* windows, one axis after the other (the filter returns the window means;
\* N = size * size is divided out where the sums are used).
window_sums(x, h, w, size) == row_sums(column_sums(x, h, w, size), h, w, size)

\* The elementwise product of two sequences read through broadcast indices.
products(x, ix, y, iy, n) == SubSeq([k \in 1..n |-> x[ix[k]] * y[iy[k]]], 1, n)

\* A fraction in lowest terms with a positive denominator.
Frac(num, den) ==
  LET Sign(x) == IF x < 0 THEN -1 ELSE 1
      Abs(x) == IF x < 0 THEN -x ELSE x
      Reduced(g) == <<(Sign(den) * num) \div g, Abs(den) \div g>>
  IN Reduced(GCD(Abs(num), Abs(den)))

\* The product of two fractions in lowest terms, reduced crosswise before
\* the multiplication.
FracMul(x, y) ==
  LET Abs(v) == IF v < 0 THEN -v ELSE v
      Cross(g1, g2) == <<(x[1] \div g1) * (y[1] \div g2), (x[2] \div g2) * (y[2] \div g1)>>
  IN Cross(GCD(Abs(x[1]), y[2]), GCD(Abs(y[1]), x[2]))

\* The arrays of lines 183-187 at one pixel, from the window sums S1, S2 (of
\* im1, im2), Q1, Q2 (of their squares) and P (of im1 * im2), N = block_size^2
\* and NN = N * N.  The filter's means are S / N, so every array is an integer
\* over NN or over NN * NN; only the integers are kept, and the two factors of
\* numerator and of denominator are kept apart:
\*   mul  : im12_sum_mul = S1 S2 / NN          sq   : im12_sq_sum_mul = (S1^2 + S2^2) / NN
\*   cov  : N * im12_sum - im12_sum_mul = (NN P - S1 S2) / NN
\*   den1 : denominator1 = (NN (Q1 + Q2) - (S1^2 + S2^2)) / NN
\*   numerator = 4 * cov * mul                 denominator = den1 * sq
uiqi_terms(NN, S1, S2, Q1, Q2, P) ==
  [mul |-> S1 * S2,
   sq |-> S1 * S1 + S2 * S2,
   cov |-> NN * P - S1 * S2,
   den1 |-> NN * (Q1 + Q2) - (S1 * S1 + S2 * S2)]

\* denominator != 0: a product of two finite numbers, non-zero when both are.
denominator_nonzero(t) == t.den1 # 0 /\ t.sq # 0

\* numerator / denominator where the denominator is not 0.
quotient(t) == FracMul(Frac(4 * t.cov, t.den1), Frac(t.mul, t.sq))

\* q_map[index] = values[index]
assign_where(q, index, values) ==
  SubSeq([k \in 1..Len(q) |-> IF index[k] THEN values[k] ELSE q[k]], 1, Len(q))

\* Lines 190-191 left out.
no_first_substitution(q, terms) == q

\* index = (denominator1 == 0) & (im12_sq_sum_mul != 0)
\* q_map[index] = (2 * im12_sum_mul[index]) / im12_sq_sum_mul[index]
first_substitution(q, terms) ==
  assign_where(q,
    [k \in 1..Len(q) |-> terms[k].den1 = 0 /\ terms[k].sq # 0],
    [k \in 1..Len(q) |-> IF terms[k].sq # 0 THEN Frac(2 * terms[k].mul, terms[k].sq) ELSE <<0, 0>>])

\* index = denominator != 0
\* q_map[index] = numerator[index] / denominator[index]
second_substitution(q, terms) ==
  assign_where(q,
    [k \in 1..Len(q) |-> denominator_nonzero(terms[k])],
    [k \in 1..Len(q) |-> IF denominator_nonzero(terms[k]) THEN quotient(terms[k]) ELSE <<0, 0>>])

\* q_map = np.ones(denominator.shape), then the two substitutions in order.
uiqi_q_map(terms) ==
  second_substitution(
    first_substitution(SubSeq([k \in 1..Len(terms) |-> <<1, 1>>], 1, Len(terms)), terms), terms)

\* The terms of lines 171-187 of uiqi_single_channel at every pixel of the
\* broadcast shape rshape; i1 and i2 are the broadcast indices of im1 and im2.
uiqi_channel_terms(self, c1, c2, rshape, i1, i2) ==
  LET size == self.block_size
      NN == size * size * size * size
      Sums(c) == window_sums(c.data, c.shape[1], c.shape[2], size)
      Squares(c) == SubSeq([k \in 1..Len(c.data) |-> c.data[k] * c.data[k]], 1, Len(c.data))
      SqSums(c) == window_sums(Squares(c), c.shape[1], c.shape[2], size)
      Terms(S1, S2, Q1, Q2, P) ==
        SubSeq([k \in 1..Size(rshape) |->
                  uiqi_terms(NN, S1[i1[k]], S2[i2[k]], Q1[i1[k]], Q2[i2[k]], P[k])], 1, Size(rshape))
  IN Terms(Sums(c1), Sums(c2), SqSums(c1), SqSums(c2),
           window_sums(products(c1.data, i1, c2.data, i2, Size(rshape)), rshape[1], rshape[2], size))

\* The terms and the quality map of two channels that can be broadcast.
uiqi_terms_of(self, c1, c2) ==
  uiqi_channel_terms(self, c1, c2, BroadcastShape(c1.shape, c2.shape),
                     BroadcastIndex(c1.shape, BroadcastShape(c1.shape, c2.shape)),
                     BroadcastIndex(c2.shape, BroadcastShape(c1.shape, c2.shape)))

uiqi_q_map_of(self, c1, c2) == uiqi_q_map(uiqi_terms_of(self, c1, c2))

\* q_map[s:-s, s:-s] of a map of this shape with a region of rows x cols left:
\* the values of the region, row by row.
crop_q_map(q, shape, s, rows, cols) ==
  SubSeq([k \in 1..(rows * cols) |->
            q[(s + ((k - 1) \div cols)) * shape[2] + s + ((k - 1) % cols) + 1]], 1, rows * cols)

\* UIQI.uiqi_single_channel on the channels c1, c2: im1 * im2 raises
\* ValueError when they cannot be broadcast.  np.mean of the region
\* q_map[s:-s, s:-s] is nan when the region is empty, whatever the map holds;
\* else it is kept as the region's shape and values.
uiqi_single_channel(self, c1, c2) ==
  LET Value(rshape, s, rows, cols) ==
        IF rows * cols = 0 THEN [tag |-> "nan", args |-> <<rows, cols, <<>>>>]
        ELSE [tag |-> "uiqi",
              args |-> <<rows, cols, crop_q_map(uiqi_q_map_of(self, c1, c2), rshape, s, rows, cols)>>]
      Map(rshape, s) == Value(rshape, s, SliceLen(rshape[1], s), SliceLen(rshape[2], s))
  IN IF ~Broadcastable(c1.shape, c2.shape) THEN Raise("ValueError")
     ELSE Return(Map(BroadcastShape(c1.shape, c2.shape), IntOf(self.block_size, 2)))

\* UIQI.analyze: np.mean(uiqi_results), kept as the number of channels, the
\* averaged region and the per-channel values; nan when the region is empty.
UIQI_analyze(self, imgs, p) ==
  LET fl == as_floats(imgs, p)
      n == ch_num(self.channels_num, imgs, p)
      Per(ch) == uiqi_single_channel(self, Channel(fl[1], ch), Channel(fl[2], ch))
      Shapes0(s1, s2) ==
        IF ~Broadcastable(ChannelShape(s1), ChannelShape(s2)) THEN Raise("ValueError")
        ELSE Return(NoVal)
      Loop(per) == ChannelLoop(fl[1].shape, fl[2].shape, n, per)
      Results(k) == SubSeq([ch \in 1..k |-> Per(ch - 1).val], 1, k)
      Result(results) ==
        [tag |-> results[1].tag,
         args |-> <<n, results[1].args[1], results[1].args[2],
                    SubSeq([ch \in 1..n |-> results[ch].args[3]], 1, n)>>]
      Finish(out) == IF IsRaise(out) THEN out ELSE Return(Result(Results(n)))
  IN Finish(Loop(Shapes0(fl[1].shape, fl[2].shape)))

\* VIFP.vifp_single_channel: mu1 * mu2 raises ValueError when the channels
\* cannot be broadcast; the quotient is a float (nan included), kept symbolic.
vifp_single_channel(self, s1, s2) ==
  IF ~Broadcastable(s1, s2) THEN Raise("ValueError")
  ELSE Return([tag |-> "vifp", args |-> <<>>])

\* VIFP.analyze: np.nan_to_num turns a nan channel into 0 before the mean.
VIFP_analyze(self, imgs, p) ==
  LET fl == as_floats(imgs, p)
      n == ch_num(self.channels_num, imgs, p)
      Per(s1, s2) == vifp_single_channel(self, ChannelShape(s1), ChannelShape(s2))
      Loop(per) == ChannelLoop(fl[1].shape, fl[2].shape, n, per)
      Result(out) ==
        IF IsRaise(out) THEN out
        ELSE Return([tag |-> "vifp", args |-> <<n>>])
  IN Result(Loop(Per(fl[1].shape, fl[2].shape)))

\* ------------------------------------------------------------- SAM
\* Pixel values are non-negative integers, so the sums of products below are
\* exact; the square roots of np.linalg.norm are not, and the quotient of a
\* pixel whose exact cosine is 1 comes out one rounding step below 1, at 1 or
\* one step above 1.  rnd is that step (-1, 0, 1) for the first pixel
\* (rnd[1]) and for the other pixels (rnd[2]).
\* A cosine is kept as its class: "nan" (0 / 0), "above" (> 1), "one",
\* "below" (one rounding step below 1) or "inside" (in [0, 1)).  An angle
\* is "nan", "zero", "tiny" (the arccos of "below": a rounding error) or "pos".
Roundings == {<<r1, r2>> : r1 \in {-1, 0, 1}, r2 \in {-1, 0, 1}}

\* Sum over the channels c = 1..n of a[base1 + c] * b[base2 + c].
RECURSIVE DotTo(_, _, _, _, _)
DotTo(a, base1, b, base2, n) ==
  IF n = 0 THEN 0 ELSE a[base1 + n] * b[base2 + n] + DotTo(a, base1, b, base2, n - 1)

\* numerator / denominator at one pixel: num is np.sum(im1 * im2, axis=2), n1
\* and n2 the squared norms of the two pixels, r the rounding step.
Cosine(num, n1, n2, r) ==
  IF n1 * n2 = 0 THEN "nan"
  ELSE IF num * num > n1 * n2 THEN "above"
  ELSE IF num * num < n1 * n2 THEN "inside"
  ELSE IF r = 1 THEN "above"
  ELSE IF r = -1 THEN "below"
  ELSE "one"

\* np.clip(val, -1, 1); nan stays nan.
Clip(c) == IF c = "above" THEN "one" ELSE c

\* np.arccos: nan outside [-1, 1].
Arccos(c) ==
  CASE c = "nan" -> "nan"
    [] c = "above" -> "nan"
    [] c = "one" -> "zero"
    [] c = "below" -> "tiny"
    [] c = "inside" -> "pos"

\* np.nan_to_num left out: nan stays nan.
keep_nan(x) == x

\* np.nan_to_num: nan becomes 0 and an infinity the largest finite float.
nan_to_num(x) ==
  CASE x = "nan" -> "zero"
    [] x = "inf" -> "huge"
    [] OTHER -> x

\* np.mean of a non-empty array of angles, by class.
MeanAngle(angles) ==
  IF \E k \in 1..Len(angles) : angles[k] = "nan" THEN "nan"
  ELSE IF \E k \in 1..Len(angles) : angles[k] = "pos" THEN "pos"
  ELSE IF \E k \in 1..Len(angles) : angles[k] = "tiny" THEN "tiny"
  ELSE "zero"

\* numerator and the two norms (squared) at every pixel of the broadcast
\* result of shape rshape: i1, i2 are the broadcast indices of im1 and im2 into
\* it, j1, j2 those of the norm maps (one norm per pixel of each array, over
\* its own channels).
sam_products(a, b, rshape, i1, i2, j1, j2) ==
  LET C == rshape[3]
      n == rshape[1] * rshape[2]
      Num(k) == SumSeq(SubSeq([c \in 1..C |-> a.data[i1[(k - 1) * C + c]] * b.data[i2[(k - 1) * C + c]]], 1, C))
      Norm2(x, j) == DotTo(x.data, (j - 1) * x.shape[3], x.data, (j - 1) * x.shape[3], x.shape[3])
  IN SubSeq([k \in 1..n |-> <<Num(k), Norm2(a, j1[k]), Norm2(b, j2[k])>>], 1, n)

\* The spectral angle of every pixel: arccos of the clipped quotient, the
\* first pixel's quotient rounded by rnd[1] and the others' by rnd[2].
sam_angles(prods, rnd) ==
  SubSeq([k \in 1..Len(prods) |->
            Arccos(Clip(Cosine(prods[k][1], prods[k][2], prods[k][3],
                               IF k = 1 THEN rnd[1] ELSE rnd[2])))], 1, Len(prods))

\* sam_angles * 180 / pi, nan_to_num, np.mean.
sam_mean(angles) ==
  MeanAngle(SubSeq([k \in 1..Len(angles) |-> nan_to_num(angles[k])], 1, Len(angles)))

\* Lines 307-313 of SAM.analyze: im1 * im2 (ValueError when not
\* broadcastable), np.sum and np.linalg.norm over axis 2 (AxisError on an
\* array without that axis); the shape of the angle map and its products.
SAM_products(imgs, p) ==
  LET fl == as_floats(imgs, p)
      Prods(s1, s2, rshape) ==
        sam_products(fl[1], fl[2], rshape,
                     BroadcastIndex(s1, rshape), BroadcastIndex(s2, rshape),
                     BroadcastIndex(SubSeq(s1, 1, 2), SubSeq(rshape, 1, 2)),
                     BroadcastIndex(SubSeq(s2, 1, 2), SubSeq(rshape, 1, 2)))
      Products(s1, s2) ==
        IF ~Broadcastable(s1, s2) THEN Raise("ValueError")
        ELSE IF Len(BroadcastShape(s1, s2)) < 3 THEN Raise("AxisError")
        ELSE IF Len(s1) < 3 \/ Len(s2) < 3 THEN Raise("AxisError")
        ELSE Return(<<SubSeq(BroadcastShape(s1, s2), 1, 2), Prods(s1, s2, BroadcastShape(s1, s2))>>)
  IN Products(fl[1].shape, fl[2].shape)

\* The rest of SAM.analyze on those products: the result is the class of the
\* mean angle, with the shape of the angle map.
SAM_result(self, prods, rnd) ==
  IF IsRaise(prods) THEN prods
  ELSE Return([tag |-> IF self.convert_to_degrees THEN "sam-degrees" ELSE "sam-radians",
               args |-> prods.val[1] \o <<sam_mean(sam_angles(prods.val[2], rnd))>>])

\* The results SAM.analyze can give on those products, one per pair of
\* roundings.
SAM_results(self, prods) == {SAM_result(self, prods, rnd) : rnd \in Roundings}

\* ------------------------------------------------------------- input families
\* Shapes: 2-D (height, width) and 3-D (height, width, channels).
Shapes(maxdim) ==
  {<<h, w>> : h \in 1..maxdim, w \in 1..maxdim}
    \cup {<<h, w, c>> : h \in 1..maxdim, w \in 1..maxdim, c \in 1..MaxChan}

\* A buffer whose first element is a and whose other elements are all b.
Buffer(dtype, shape, a, b) ==
  [dtype |-> dtype, shape |-> shape,
   data |-> SubSeq([k \in 1..Size(shape) |-> IF k = 1 THEN a ELSE b], 1, Size(shape))]

PixImages ==
  {Buffer("uint8", s, a, b) : s \in Shapes(MaxPixDim), a \in 0..MaxPix, b \in 0..MaxPix}

\* No VIFP.analyze call is in progress.  The fields are the locals of
\* VIFP.analyze (ch_num, ch, vifp_results, mean: the value returned) and of
\* vifp_single_channel (scale, N, numerator, denominator and the arrays of the
\* current scale); pc is the place in the code.
Idle ==
  [pc |-> "idle", ch_num |-> 0, ch |-> 0, vifp_results |-> <<>>, mean |-> "none",
   scale |-> 0, N |-> <<>>, numerator |-> {}, denominator |-> {},
   sigma1_sq |-> <<>>, sigma2_sq |-> <<>>, sigma12 |-> <<>>, g |-> <<>>, sv_sq |-> <<>>,
   log_args |-> <<>>]

Call(op, args, out) == [op |-> op, args |-> args, out |-> out]

NoOp == Call("none", <<>>, Return(NoVal))

\* The instances a caller builds with the default arguments: UIQI(), VIFP()
\* (sigma = 2.0, in units of 1/Denom) and SAM().
UIQI_default == [channels_num |-> None, block_size |-> 8]
VIFP_default == [channels_num |-> None, sigma |-> 2 * Denom]
SAM_default == [convert_to_degrees |-> TRUE]

\* Same-shape pairs of zero-filled 8-bit images of every shape.
BlankImages == {Buffer("uint8", s, 0, 0) : s \in Shapes(MaxDim)}

\* Images of every small shape, stored as 8-bit integers or as 32-bit floats.
ObjImages == {Buffer(t, s, MaxPix, 0) : t \in {"uint8", "float32"}, s \in Shapes(MaxPixDim)}

\* The measured images paired with reference r: every storage type of r's
\* shape, and for an 8-bit r the 8-bit images of every other shape.
ObjMeasuredFor(r) ==
  {m \in ObjImages : m.shape = r.shape \/ (m.dtype = "uint8" /\ r.dtype = "uint8")}

\* Constructor arguments.
ChannelArgs == {None} \cup {<<n>> : n \in 0..MaxChan}
ParamVals == -1..MaxParam
KVals == -1..MaxK
Keys == -1..MaxKey

\* ------------------------------------------------------------- actions
\* mse.analyze(image_pair)
AnalyzeMSE ==
  /\ last' = Call("MSE", <<>>, MSE_analyze(images, pair))
  /\ UNCHANGED <<images, pair, ssim, uiqi, vifp, sam, run>>

\* psnr.analyze(image_pair)
AnalyzePSNR ==
  /\ last' = Call("PSNR", <<>>, PSNR_analyze(images, pair))
  /\ UNCHANGED <<images, pair, ssim, uiqi, vifp, sam, run>>

\* SSIM(channels_num, sigma, truncate, K1, K2): the caller's one construction
\* of an SSIM instance; a configuration error is terminal.
SSIMInit ==
  /\ ssim = <<>>
  /\ last = NoOp
  /\ \E channels \in ChannelArgs, sigma \in ParamVals, truncate \in ParamVals,
        K1 \in KVals, K2 \in KVals :
       LET out == SSIM_init(channels, sigma, truncate, K1, K2)
       IN /\ last' = Call("SSIM.__init__", <<channels, sigma, truncate, K1, K2>>, out)
          /\ ssim' = IF IsReturn(out) THEN <<SSIM_fields(out.val.args)>> ELSE ssim
  /\ UNCHANGED <<images, pair, uiqi, vifp, sam, run>>

\* ssim.analyze(image_pair)
AnalyzeSSIM ==
  /\ ssim # <<>>
  /\ last' = Call("SSIM", <<>>, SSIM_analyze(ssim[1], images, pair))
  /\ UNCHANGED <<images, pair, ssim, uiqi, vifp, sam, run>>

\* uiqi.analyze(image_pair)
AnalyzeUIQI ==
  /\ last' = Call("UIQI", <<>>, UIQI_analyze(uiqi, images, pair))
  /\ UNCHANGED <<images, pair, ssim, uiqi, vifp, sam, run>>

\* vifp.analyze(image_pair)
AnalyzeVIFP ==
  /\ last' = Call("VIFP", <<>>, VIFP_analyze(vifp, images, pair))
  /\ UNCHANGED <<images, pair, ssim, uiqi, vifp, sam, run>>

\* sam.analyze(image_pair)
AnalyzeSAM ==
  /\ \E out \in SAM_results(sam, SAM_products(images, pair)) : last' = Call("SAM", <<>>, out)
  /\ UNCHANGED <<images, pair, ssim, uiqi, vifp, sam, run>>

\* image_pair[key]
GetItem ==
  /\ \E key \in Keys : last' = Call("getitem", <<key>>, getitem(pair, key))
  /\ UNCHANGED <<images, pair, ssim, uiqi, vifp, sam, run>>

\* image_pair[key] = value
SetItem ==
  /\ \E key \in Keys, value \in ImgIds :
       /\ pair' = setitem(pair, key, value).pair
       /\ last' = Call("setitem", <<key, value>>, setitem(pair, key, value).out)
  /\ UNCHANGED <<images, ssim, uiqi, vifp, sam, run>>

\* ------------------------------------------------------------- pixel-level specification
\* Two loaded 8-bit images wrapped in an ImagePair; MSE and PSNR analyse the pair.
\* The measured images paired with reference r: every image of r's shape, and,
\* for a flat r, the flat images of every other shape.
MeasuredFor(r) ==
  {m \in PixImages :
     \/ m.shape = r.shape
     \/ /\ \A k \in 1..Size(m.shape) : m.data[k] = m.data[1]
        /\ \A k \in 1..Size(r.shape) : r.data[k] = r.data[1]}

InitPix ==
  /\ \E r \in PixImages : \E m \in MeasuredFor(r) : images = [i \in ImgIds |-> IF i = 1 THEN r ELSE m]
  /\ pair = ImagePair(1, 2)
  /\ ssim = <<>>
  /\ uiqi = UIQI_default
  /\ vifp = VIFP_default
  /\ sam = SAM_default
  /\ run = Idle
  /\ last = NoOp

NextPix == AnalyzeMSE \/ AnalyzePSNR

SpecPix == InitPix /\ [][NextPix]_vars

\* ------------------------------------------------------------- properties: MSE, PSNR
Ref == images[pair.ref]
Meas == images[pair.A]
IsFlat(im) == \A k \in 1..Size(im.shape) : im.data[k] = im.data[1]

\* C1: analysing a pair of identical images, MSE returns 0.0 and PSNR returns
\* +infinity, from the err == 0 branch and not from the logarithm formula.
Thm_C1_IdenticalPair ==
  Ref = Meas =>
    /\ last.op = "MSE" => last.out = Return(MeanVal(<<0, 1>>))
    /\ last.op = "PSNR" => last.out = Return(InfVal)

Wit_C1_IdenticalPair ==
  /\ Ref = Meas
  /\ Size(Ref.shape) > 1
  /\ MaxSeq(Ref.data) > 0
  /\ last.op = "PSNR"
  /\ last.out = Return(InfVal)

\* The sum over all elements of the squared differences of two same-shape buffers.
SqDiffTotal(x, y) == SumSeq([k \in 1..Len(x.data) |-> (x.data[k] - y.data[k]) * (x.data[k] - y.data[k])])

\* C2: for a same-shape pair MSE returns the mean, over all elements of all
\* channels, of the squared difference taken without reduction modulo 256; a
\* constant offset d between two flat images gives d*d whichever is larger.
Thm_C2_MeanSquaredDifference ==
  (last.op = "MSE" /\ matching_shape(images, pair)) =>
    /\ IsReturn(last.out)
    /\ last.out.val.tag = "mean"
    /\ last.out.val.args[1] * Size(Ref.shape) = SqDiffTotal(Ref, Meas) * last.out.val.args[2]
    /\ last.out.val.args[2] > 0
    /\ (IsFlat(Ref) /\ IsFlat(Meas)) =>
         last.out.val.args = <<(Ref.data[1] - Meas.data[1]) * (Ref.data[1] - Meas.data[1]), 1>>

Wit_C2_MeasuredLarger ==
  /\ last.op = "MSE"
  /\ matching_shape(images, pair)
  /\ Len(Ref.shape) = 3 /\ Ref.shape[3] > 1 /\ Size(Ref.shape) > 2
  /\ IsFlat(Ref) /\ IsFlat(Meas)
  /\ Meas.data[1] = Ref.data[1] + 2
  /\ last.out = Return(MeanVal(<<4, 1>>))

\* C3: for two images of identical shape, MSE of (A, B) equals MSE of (B, A).
Thm_C3_MSESymmetric ==
  (last.op = "MSE" /\ matching_shape(images, pair)) =>
    last.out = MSE_analyze(images, ImagePair(pair.A, pair.ref))

Wit_C3_MSESymmetric ==
  /\ last.op = "MSE"
  /\ matching_shape(images, pair)
  /\ ~IsFlat(Ref)
  /\ \E k \in 1..Len(Ref.data) : Ref.data[k] > Meas.data[k]
  /\ \E k \in 1..Len(Ref.data) : Ref.data[k] < Meas.data[k]
  /\ IsReturn(last.out) /\ last.out.val.args[1] > 0

\* The images that could stand in for the measured one: same shape, other pixels.
MeasuredAlternatives == {Buffer("uint8", Meas.shape, a, b) : a \in 0..MaxPix, b \in 0..MaxPix}

Claim_C8_ShapeMismatchRaises ==
  (last.op \in {"MSE", "PSNR"} /\ ~matching_shape(images, pair)) => IsRaise(last.out)

\* ------------------------------------------------------------- SSIM specification
\* A pair of same-shape images; the caller constructs an SSIM instance and analyses.
InitSSIM ==
  /\ \E r \in BlankImages : images = [i \in ImgIds |-> r]
  /\ pair = ImagePair(1, 2)
  /\ ssim = <<>>
  /\ uiqi = UIQI_default
  /\ vifp = VIFP_default
  /\ sam = SAM_default
  /\ run = Idle
  /\ last = NoOp

NextSSIM == SSIMInit \/ AnalyzeSSIM

SpecSSIM == InitSSIM /\ [][NextSSIM]_vars

\* ------------------------------------------------------------- object-level specification
\* Two images of any shape and storage type in an ImagePair, an instance of
\* each metric (SSIM(sigma=1/Denom, truncate=1/Denom): pad 0), and any sequence
\* of analyze calls and of reads and assignments of the pair's items.
Init ==
  /\ \E r \in ObjImages : \E m \in ObjMeasuredFor(r) : images = [i \in ImgIds |-> IF i = 1 THEN r ELSE m]
  /\ pair = ImagePair(1, 2)
  /\ ssim = <<SSIM_fields(<<None, 1, 1, 1, 3>>)>>
  /\ uiqi = UIQI_default
  /\ vifp = VIFP_default
  /\ sam = SAM_default
  /\ run = Idle
  /\ last = NoOp

Next ==
  \/ AnalyzeMSE
  \/ AnalyzePSNR
  \/ AnalyzeSSIM
  \/ AnalyzeUIQI
  \/ AnalyzeVIFP
  \/ AnalyzeSAM
  \/ GetItem
  \/ SetItem

Spec == Init /\ [][Next]_vars

\* ------------------------------------------------------------- properties: SSIM
\* C5 (as claimed): constructing SSIM fails whenever sigma <= 0, truncate <= 0,
\* K1 < 0 or K2 < 0, and otherwise succeeds storing exactly the given values.
Claim_C5_ConstructorValidates ==
  last.op = "SSIM.__init__" =>
    LET valid == last.args[2] > 0 /\ last.args[3] > 0 /\ last.args[4] >= 0 /\ last.args[5] >= 0
    IN /\ ~valid => (IsRaise(last.out) /\ ssim = <<>>)
       /\ valid => (IsReturn(last.out) /\ ssim = <<SSIM_fields(last.args)>>)

\* floor(truncate * sigma + 1/2) for the instance's sigma and truncate: the
\* integer n with n <= truncate * sigma + 1/2 < n + 1.
IsPadOf(n, self) ==
  /\ 2 * Denom * Denom * n <= 2 * self.truncate * self.sigma + Denom * Denom
  /\ 2 * self.truncate * self.sigma + Denom * Denom < 2 * Denom * Denom * (n + 1)

AnalyzeOps == {"MSE", "PSNR", "SSIM", "UIQI", "VIFP", "SAM"}

\* C7 (as claimed): for a same-shape pair of 2-D (grayscale) arrays, analyze
\* does not raise for any of MSE, PSNR, SSIM, UIQI and VIF-P.
Claim_C7_GrayscaleDoesNotRaise ==
  (last.op \in {"MSE", "PSNR", "SSIM", "UIQI", "VIFP"}
     /\ Len(Ref.shape) = 2 /\ Meas.shape = Ref.shape) => IsReturn(last.out)

Frame_C9_AnalyzeChangesNothing ==
  [][last'.op \in AnalyzeOps =>
       /\ images' = images
       /\ pair' = pair
       /\ <<ssim', uiqi', vifp', sam'>> = <<ssim, uiqi, vifp, sam, run>>]_vars

\* C10: pair[0] is the reference and pair[1] the measured Image object itself;
\* pair[0] = v replaces only the reference, pair[1] = v only the measured
\* image; any other key raises IndexError and changes nothing.
Thm_C10_PositionalAccess ==
  [][/\ last'.op = "getitem" =>
          /\ pair' = pair
          /\ (last'.args[1] = 0) => (last'.out = Return(ImageVal(pair.ref)))
          /\ (last'.args[1] = 1) => (last'.out = Return(ImageVal(pair.A)))
          /\ (last'.args[1] \notin {0, 1}) => (last'.out = Raise("IndexError"))
     /\ last'.op = "setitem" =>
          /\ (last'.args[1] = 0) =>
               (pair' = [ref |-> last'.args[2], A |-> pair.A] /\ IsReturn(last'.out))
          /\ (last'.args[1] = 1) =>
               (pair' = [ref |-> pair.ref, A |-> last'.args[2]] /\ IsReturn(last'.out))
          /\ (last'.args[1] \notin {0, 1}) =>
               (pair' = pair /\ last'.out = Raise("IndexError"))
     /\ last'.op \in {"getitem", "setitem"} => images' = images]_vars

Wit_C10_ReadAfterAssign ==
  /\ last.op = "getitem"
  /\ last.args = <<0>>
  /\ pair = [ref |-> 2, A |-> 2]
  /\ last.out = Return(ImageVal(2))

\* ------------------------------------------------------------- SAM specification
\* Two loaded 8-bit images in an ImagePair and a SAM instance built with
\* to_degrees True or False; SAM analyses the pair.
SAM_init(to_degrees) == [convert_to_degrees |-> to_degrees]

InitSAM ==
  /\ \E r \in PixImages : \E m \in MeasuredFor(r) : images = [i \in ImgIds |-> IF i = 1 THEN r ELSE m]
  /\ pair = ImagePair(1, 2)
  /\ ssim = <<>>
  /\ uiqi = UIQI_default
  /\ vifp = VIFP_default
  /\ \E to_degrees \in BOOLEAN : sam = SAM_init(to_degrees)
  /\ run = Idle
  /\ last = NoOp

NextSAM == AnalyzeSAM

SpecSAM == InitSAM /\ [][NextSAM]_vars

\* The channel vector of pixel k of a 3-D image is the zero vector.
ZeroPixel(im, k) ==
  \A c \in 1..im.shape[3] : im.data[(k - 1) * im.shape[3] + c] = 0

\* C11: SAM of an image with at least 2 channels against itself is 0 up to the
\* rounding of one cosine (classes "zero" or "tiny"), in degrees and in
\* radians, zero-vector pixels included; and no SAM result is NaN.
Thm_C11_SAMIdenticalIsZero ==
  last.op = "SAM" =>
    /\ IsReturn(last.out) => last.out.val.args[3] # "nan"
    /\ (Ref = Meas /\ Len(Ref.shape) = 3 /\ Ref.shape[3] >= 2) =>
         /\ IsReturn(last.out)
         /\ last.out.val.args[3] \in {"zero", "tiny"}
         /\ last.out.val.tag = IF sam.convert_to_degrees THEN "sam-degrees" ELSE "sam-radians"

\* An image with a zero-vector pixel and a non-zero pixel, against itself, in radians.
Wit_C11_ZeroVectorPixel ==
  /\ last.op = "SAM"
  /\ Ref = Meas
  /\ Len(Ref.shape) = 3
  /\ Ref.shape[3] >= 2
  /\ Ref.shape[1] * Ref.shape[2] >= 2
  /\ ~ZeroPixel(Ref, 1)
  /\ ZeroPixel(Ref, 2)
  /\ ~sam.convert_to_degrees
  /\ last.out = Return([tag |-> "sam-radians", args |-> <<Ref.shape[1], Ref.shape[2], "tiny">>])

\* ------------------------------------------------------------- parsers
\* A Python str is a sequence of one-character strings.
\* The value texts of the generated argument tokens have at most MaxText characters.
MaxText == 2
\* The operations list has at most MaxOps names.
MaxOps == 2

StrVal(s) == [tag |-> "str", args |-> s]
IntVal(n) == [tag |-> "int", args |-> <<n>>]
BoolVal(b) == [tag |-> "bool", args |-> <<b>>]

\* all_operations = {**all_metrics, **all_transformations}: the registry, from
\* the name of an operation to its class (SAM, a Metric; Blur, a Transformation).
all_metrics == {[name |-> <<"s", "a", "m">>, base |-> "Metric"]}
all_transformations == {[name |-> <<"b", "l", "u", "r">>, base |-> "Transformation"]}
all_operations == all_metrics \cup all_transformations

\* all_operations.get(op_name): <<>> (None) for a name that is not registered.
registry_get(op_name) ==
  IF \E o \in all_operations : o.name = op_name
  THEN <<CHOOSE o \in all_operations : o.name = op_name>>
  ELSE None

\* operation.get_class_name(): the name the operation is registered under.
get_class_name(operation) == operation.name

\* arg.find(name) == 0
find_at_start(arg, name) == Len(arg) >= Len(name) /\ SubSeq(arg, 1, Len(name)) = name

\* arg.index(ch): the 0-based position of the first ch, or -1 where Python raises ValueError.
RECURSIVE index_from(_, _, _)
index_from(arg, ch, i) ==
  IF i > Len(arg) THEN -1
  ELSE IF arg[i] = ch THEN i - 1
  ELSE index_from(arg, ch, i + 1)

index(arg, ch) == index_from(arg, ch, 1)

\* arg[from : to] for 0 <= from, 0 <= to: Python clamps both to len(arg).
slice(arg, from, to) ==
  LET Clamp(i) == IF i > Len(arg) THEN Len(arg) ELSE i
  IN SubSeq(arg, Clamp(from) + 1, Clamp(to))

\* s.replace("-", "_")
RECURSIVE replace(_, _, _)
replace(s, old, new) ==
  IF s = <<>> THEN <<>>
  ELSE <<IF Head(s) = old THEN new ELSE Head(s)>> \o replace(Tail(s), old, new)

\* The characters of the generated value texts: a digit, a letter, a space
\* and an opening bracket.
ValueChars == {"1", "a", " ", "["}

RECURSIVE rstrip(_)
rstrip(s) == IF s # <<>> /\ s[Len(s)] = " " THEN rstrip(SubSeq(s, 1, Len(s) - 1)) ELSE s

\* The integer a text of digits "1" denotes.
RECURSIVE int_of_digits(_)
int_of_digits(s) == IF s = <<>> THEN 0 ELSE 10 * int_of_digits(SubSeq(s, 1, Len(s) - 1)) + 1

\* ast.literal_eval(text) for a text over ValueChars that does not start with a
\* space: digits are an int literal; a word (a letter, then letters and
\* digits) parses as a name, which is no literal (ValueError); every other
\* text (empty, two tokens, a digit followed by a letter, an unclosed bracket)
\* does not parse (SyntaxError).  Trailing spaces are ignored.
literal_eval(text) ==
  LET Eval(s) ==
        IF s = <<>> THEN Raise("SyntaxError")
        ELSE IF \A k \in 1..Len(s) : s[k] = "1" THEN Return(IntVal(int_of_digits(s)))
        ELSE IF s[1] = "a" /\ \A k \in 1..Len(s) : s[k] \in {"a", "1"} THEN Raise("ValueError")
        ELSE Raise("SyntaxError")
  IN Eval(rstrip(text))

\* try: value = ast.literal_eval(value) / except ValueError: pass
coerce(value) ==
  LET Caught(r) ==
        IF IsReturn(r) THEN r
        ELSE IF r.exc = "ValueError" THEN Return(StrVal(value))
        ELSE r
  IN Caught(literal_eval(value))

\* One argument token of the operation named name: the (key, value) it binds,
\* or the exception the coercion lets through.
parse_kwarg(name, arg) ==
  LET slice_from == Len(name) + 1
      WithValue(eq, v) ==
        IF IsRaise(v) THEN v
        ELSE Return([tag |-> "kwarg", args |-> <<replace(slice(arg, slice_from, eq), "-", "_"), v.val>>])
      Flag == Return([tag |-> "kwarg", args |-> <<slice(arg, slice_from, Len(arg)), BoolVal(TRUE)>>])
      At(eq) == IF eq >= 0 THEN WithValue(eq, coerce(slice(arg, eq + 1, Len(arg)))) ELSE Flag
  IN At(index(arg, "="))

\* parsed_kwargs[key] = value on a dict kept as a sequence of <<key, value>>
\* in insertion order.
dict_set(d, key, value) ==
  IF \E k \in 1..Len(d) : d[k][1] = key
  THEN SubSeq([k \in 1..Len(d) |-> IF d[k][1] = key THEN <<key, value>> ELSE d[k]], 1, Len(d))
  ELSE Append(d, <<key, value>>)

\* The loop over op_kwargs: the dict, or the first exception.
RECURSIVE parse_kwargs(_, _, _)
parse_kwargs(name, op_kwargs, d) ==
  IF op_kwargs = <<>> THEN Return([tag |-> "dict", args |-> d])
  ELSE LET r == parse_kwarg(name, Head(op_kwargs))
       IN IF IsRaise(r) THEN r
          ELSE parse_kwargs(name, Tail(op_kwargs), dict_set(d, r.val.args[1], r.val.args[2]))

\* [arg for arg in kwargs if arg.find(name) == 0]
RECURSIVE op_kwargs_of(_, _)
op_kwargs_of(name, kwargs) ==
  IF kwargs = <<>> THEN <<>>
  ELSE (IF find_at_start(Head(kwargs), name) THEN <<Head(kwargs)>> ELSE <<>>)
         \o op_kwargs_of(name, Tail(kwargs))

to_degrees == <<"t", "o", "_", "d", "e", "g", "r", "e", "e", "s">>

\* operation(**parsed_kwargs): SAM.__init__ takes to_degrees only (TypeError
\* on any other keyword); Blur.__init__ takes **kwargs and discards the
\* unexpected ones.
construct(operation, d) ==
  IF operation.base = "Metric" /\ \E k \in 1..Len(d) : d[k][1] # to_degrees
  THEN Raise("TypeError")
  ELSE Return([tag |-> "instance", args |-> <<get_class_name(operation), d>>])

\* parse_operation_instances: the loop over operations, instances being the
\* pair <<instances["metrics"], instances["transformations"]>>.
RECURSIVE parse_operations(_, _, _)
parse_operations(operations, kwargs, instances) ==
  IF operations = <<>> THEN Return([tag |-> "instances", args |-> instances])
  ELSE LET operation == registry_get(Head(operations))
           Rest(inst) == parse_operations(Tail(operations), kwargs, inst)
           Added(op, made) ==
             IF op.base = "Metric" THEN <<Append(instances[1], made), instances[2]>>
             ELSE <<instances[1], Append(instances[2], made)>>
           Made(op, parsed) ==
             IF IsRaise(parsed) THEN parsed
             ELSE LET made == construct(op, parsed.val.args)
                  IN IF IsRaise(made) THEN made ELSE Rest(Added(op, made.val))
       IN IF operation = None THEN Rest(instances)
          ELSE Made(operation[1],
                    parse_kwargs(get_class_name(operation[1]),
                                 op_kwargs_of(get_class_name(operation[1]), kwargs), <<>>))

parse_operation_instances(operations, kwargs) ==
  parse_operations(operations, kwargs, <<<<>>, <<>>>>)

\* ------------------------------------------------------------- parser specification
\* The names given in the operations list: the registered ones and one that
\* is not registered.
OpNames == {o.name : o \in all_operations} \cup {<<"n", "o">>}

\* The keys of the generated tokens, as typed on the command line.
KeyTexts == {<<"t", "o", "-", "d", "e", "g", "r", "e", "e", "s">>, <<"k">>}

\* Every text of at most n characters over ValueChars that does not start
\* with a space, the empty text included.
TextsUpTo(n) ==
  {s \in UNION {[1..k -> ValueChars] : k \in 0..n} : s = <<>> \/ s[1] # " "}

FlagToken(name, key) == name \o <<"-">> \o key
ValueToken(name, key, value) == name \o <<"-">> \o key \o <<"=">> \o value

FlagTokens == {FlagToken(name, key) : name \in OpNames, key \in KeyTexts}
ValueTokens == {ValueToken(name, key, value) : name \in OpNames, key \in KeyTexts, value \in TextsUpTo(MaxText)}

\* The kwargs lists: empty, one token, or a token followed by a flag.
KwargLists ==
  {<<>>} \cup {<<a>> : a \in FlagTokens \cup ValueTokens}
    \cup {<<a, f>> : a \in FlagTokens \cup ValueTokens, f \in FlagTokens}

OperationLists == UNION {[1..k -> OpNames] : k \in 0..MaxOps}

\* parse_operation_instances(operations, kwargs), called once on the command line's arguments.
ParseOperationInstances ==
  /\ last = NoOp
  /\ \E operations \in OperationLists, kwargs \in KwargLists :
       last' = Call("parse_operation_instances", <<operations, kwargs>>,
                    parse_operation_instances(operations, kwargs))
  /\ UNCHANGED <<images, pair, ssim, uiqi, vifp, sam, run>>

InitParse ==
  /\ images = [i \in ImgIds |-> Buffer("uint8", <<1, 1, 1>>, 0, 0)]
  /\ pair = ImagePair(1, 2)
  /\ ssim = <<>>
  /\ uiqi = UIQI_default
  /\ vifp = VIFP_default
  /\ sam = SAM_default
  /\ run = Idle
  /\ last = NoOp

NextParse == ParseOperationInstances

SpecParse == InitParse /\ [][NextParse]_vars

\* The names of the operations of the list that are registered with this base class, in order.
RECURSIVE NamesOfBase(_, _)
NamesOfBase(operations, base) ==
  IF operations = <<>> THEN <<>>
  ELSE (IF \E o \in all_operations : o.name = Head(operations) /\ o.base = base
        THEN <<Head(operations)>> ELSE <<>>) \o NamesOfBase(Tail(operations), base)

InstanceNames(list) == [k \in 1..Len(list) |-> list[k].args[1]]

\* What the claim says a value text is bound as: the literal it denotes, or
\* the text itself when it is no valid literal.
IsIntLiteral(text) == rstrip(text) # <<>> /\ \A k \in 1..Len(rstrip(text)) : rstrip(text)[k] = "1"
BoundValue(text) == IF IsIntLiteral(text) THEN IntVal(int_of_digits(rstrip(text))) ELSE StrVal(text)

\* C12: the coercion of a value text never raises (a text that is no literal is
\* kept as a string); names that are not registered are skipped and the
\* instances are listed under "metrics" / "transformations" in the order of
\* the operations list; a single "<Name>-<key>=<value>" token binds key (with
\* '-' as '_') to the coerced value and a single "<Name>-<flag>" binds True.
Claim_C12_CoercionNeverRaises ==
  last.op = "parse_operation_instances" =>
    LET operations == last.args[1]
        kwargs == last.args[2]
        out == last.out
    IN /\ ~(IsRaise(out) /\ out.exc = "SyntaxError")
       /\ IsReturn(out) =>
            /\ InstanceNames(out.val.args[1]) = NamesOfBase(operations, "Metric")
            /\ InstanceNames(out.val.args[2]) = NamesOfBase(operations, "Transformation")
       /\ \A key \in KeyTexts, value \in TextsUpTo(MaxText) :
            (operations = <<<<"b", "l", "u", "r">>>>
               /\ kwargs = <<ValueToken(<<"b", "l", "u", "r">>, key, value)>>) =>
              out = Return([tag |-> "instances",
                            args |-> <<<<>>, <<[tag |-> "instance",
                                                args |-> <<<<"b", "l", "u", "r">>,
                                                           <<<<replace(key, "-", "_"), BoundValue(value)>>>>>>]>>>>])
       /\ \A key \in KeyTexts :
            (operations = <<<<"b", "l", "u", "r">>>>
               /\ kwargs = <<FlagToken(<<"b", "l", "u", "r">>, key)>>) =>
              out = Return([tag |-> "instances",
                            args |-> <<<<>>, <<[tag |-> "instance",
                                                args |-> <<<<"b", "l", "u", "r">>,
                                                           <<<<key, BoolVal(TRUE)>>>>>>]>>>>])

\* ------------------------------------------------------------- UIQI specification
\* UIQI is built with a block size of 1..MaxBlock.
MaxBlock == 2

\* UIQI.__init__
UIQI_init(channels, block_size) == [channels_num |-> channels, block_size |-> block_size]

\* Loaded 8-bit images of every height and width, with one channel or MaxChan.
UiqiImages ==
  {Buffer("uint8", <<h, w, c>>, a, b) :
     h \in 1..MaxDim, w \in 1..MaxDim, c \in {1, MaxChan}, a \in 0..MaxPix, b \in 0..MaxPix}

\* The measured images paired with reference r: r's own content, and the
\* images of r's shape whose first element or whose other elements are 0 or MaxPix.
UiqiMeasuredFor(r) ==
  {m \in UiqiImages :
     /\ m.shape = r.shape
     /\ \/ m.data = r.data
        \/ m.data[1] \in {0, MaxPix} /\ m.data[Len(m.data)] \in {0, MaxPix}}

InitUIQI ==
  /\ \E r \in UiqiImages : \E m \in UiqiMeasuredFor(r) :
       images = [i \in ImgIds |-> IF i = 1 THEN r ELSE m]
  /\ pair = ImagePair(1, 2)
  /\ ssim = <<>>
  /\ \E channels \in {None, <<1>>}, block_size \in 1..MaxBlock : uiqi = UIQI_init(channels, block_size)
  /\ vifp = VIFP_default
  /\ sam = SAM_default
  /\ run = Idle
  /\ last = NoOp

NextUIQI == AnalyzeUIQI

SpecUIQI == InitUIQI /\ [][NextUIQI]_vars

\* The terms of channel ch (1-based) of the analysed pair; the quality map is
\* uiqi_q_map of them.
Terms(ch) == uiqi_terms_of(uiqi, Channel(Ref, ch - 1), Channel(Meas, ch - 1))

\* The map q is, at every pixel, the quotient where the denominator is not 0,
\* else 2 * cross / (sum of squares) where denominator1 is 0 and the term
\* named by first is not, else 1.
IsPiecewise(q, terms, first) ==
  \A k \in 1..Len(terms) :
    q[k] = IF denominator_nonzero(terms[k]) THEN quotient(terms[k])
           ELSE IF terms[k].den1 = 0 /\ terms[k][first] # 0
             THEN Frac(2 * terms[k].mul, terms[k].sq)
           ELSE <<1, 1>>

IsPiecewiseMap(terms, first) == IsPiecewise(uiqi_q_map(terms), terms, first)

\* C13 as stated: the first substitution applies where denominator1 == 0 and
\* the cross term (im12_sum_mul) is non-zero.
Claim_C13_CrossTermCondition ==
  (last.op = "UIQI" /\ IsReturn(last.out)) =>
    \A ch \in 1..last.out.val.args[1] : IsPiecewiseMap(Terms(ch), "mul")

NonZeroDivisors(q) == \A k \in 1..Len(q) : q[k][2] # 0

\* C13, amended: the first substitution applies where denominator1 == 0 and
\* the sum-of-squares term (im12_sq_sum_mul, the divisor) is non-zero; the
\* map is numerator / denominator where denominator != 0, else
\* 2 * cross / (sum of squares) where that applies, else 1, and every
\* division has a non-zero divisor.
Thm_C13_PiecewiseQualityMap ==
  (last.op = "UIQI" /\ IsReturn(last.out)) =>
    \A ch \in 1..last.out.val.args[1] :
      /\ IsPiecewiseMap(Terms(ch), "sq")
      /\ NonZeroDivisors(uiqi_q_map(Terms(ch)))

HasFirstSubstitution(q, terms) ==
  /\ \E k \in 1..Len(terms) :
       /\ terms[k].den1 = 0
       /\ terms[k].mul = 0
       /\ terms[k].sq # 0
       /\ q[k] = <<0, 1>>
  /\ \E k \in 1..Len(terms) :
       /\ terms[k].den1 = 0
       /\ terms[k].sq # 0
       /\ terms[k].mul # 0
       /\ q[k] = Frac(2 * terms[k].mul, terms[k].sq)

HasFirstSubstitutionMap(terms) == HasFirstSubstitution(uiqi_q_map(terms), terms)

\* A channel with a pixel where denominator1 is 0, the cross term is 0 and the
\* sum of squares is not (the map is 0 there), and a pixel where denominator1
\* is 0 and the cross term is not (the map is 2 * cross / sum of squares).
Wit_C13_FirstSubstitutionZero ==
  /\ last.op = "UIQI"
  /\ IsReturn(last.out)
  /\ \E ch \in 1..last.out.val.args[1] : HasFirstSubstitutionMap(Terms(ch))

\* C15: for every block_size >= 1 and every image larger than block_size in
\* both dimensions, the averaged region is the map without a border of
\* floor(block_size / 2) on every side and is not empty, so the result is a
\* number.
Claim_C15_CropHalfBlock ==
  (last.op = "UIQI" /\ uiqi.block_size >= 1
     /\ Ref.shape[1] > uiqi.block_size /\ Ref.shape[2] > uiqi.block_size) =>
    /\ IsReturn(last.out)
    /\ last.out.val.args[2] = Ref.shape[1] - 2 * (uiqi.block_size \div 2)
    /\ last.out.val.args[3] = Ref.shape[2] - 2 * (uiqi.block_size \div 2)
    /\ last.out.val.args[2] * last.out.val.args[3] > 0
    /\ last.out.val.tag = "uiqi"
    /\ \A ch \in 1..last.out.val.args[1] :
         last.out.val.args[4][ch] =
           crop_q_map(uiqi_q_map(Terms(ch)), ChannelShape(Ref.shape), uiqi.block_size \div 2,
                      Ref.shape[1] - 2 * (uiqi.block_size \div 2),
                      Ref.shape[2] - 2 * (uiqi.block_size \div 2))

\* ------------------------------------------------------------- channel count
\* C16: SSIM.analyze computes one per-channel value for each of n channels,
\* where n is the channel-count override whenever one was given at
\* construction, whatever integer it is, and the reference image's own channel
\* count only when none was given.
Claim_C16_OverrideIsChannelCount ==
  (last.op = "SSIM" /\ IsReturn(last.out)) =>
    last.out.val.args[1] =
      IF ssim[1].channels_num = None THEN channels_num(Ref) ELSE ssim[1].channels_num[1]


\* ------------------------------------------------------------- VIFP, step by step
\* The numbers of vifp_single_channel are kept by class.  A variance
\* (sigma1_sq, sigma2_sq, sv_sq) is "neg" (< 0), "zero", "tiny" (0 < x < eps),
\* "eps" (= eps = 1e-10) or "big" (> eps); sigma12 and g are "neg", "zero" or
\* "pos"; a sum of logarithms is the set of the kinds of its non-zero terms.
\* What gaussian_filter returns is not computed: every class the statistics
\* of the two channels can have is drawn, and the arithmetic after it is the
\* code's.
VarClasses == {"neg", "zero", "tiny", "eps", "big"}

Rank(v) ==
  CASE v = "neg" -> 0
    [] v = "zero" -> 1
    [] v = "tiny" -> 2
    [] v = "eps" -> 3
    [] v = "big" -> 4

\* range(1, 5)
Scales == 1..4

\* N = 2 ** (4 - scale + 1) + 1
vifp_N(scale) == 2 ^ (4 - scale + 1) + 1

\* An array of n elements, all v.
full(n, v) == SubSeq([k \in 1..n |-> v], 1, n)

\* The boolean arrays x < 0, x < eps and x <= eps of an array of variances, and
\* g < 0.
is_negative(x) == SubSeq([k \in 1..Len(x) |-> x[k] = "neg"], 1, Len(x))
below_eps(x) == SubSeq([k \in 1..Len(x) |-> Rank(x[k]) < Rank("eps")], 1, Len(x))
at_most_eps(x) == SubSeq([k \in 1..Len(x) |-> Rank(x[k]) <= Rank("eps")], 1, Len(x))

\* The channel holds no pixel other than 0: its filtered copies, their means
\* and its variance are exactly 0 at every scale, and so is its covariance
\* with any channel.
AllZero(c) == \A k \in 1..Len(c.data) : c.data[k] = 0

\* gaussian_filter(im ** 2, sd) - mu_sq of a channel, by class.
sigma_sq_classes(c) == IF AllZero(c) THEN {"zero"} ELSE VarClasses

\* gaussian_filter(im1 * im2, sd) - mu12, by class.
sigma12_classes(c1, c2) ==
  IF AllZero(c1) \/ AllZero(c2) THEN {"zero"} ELSE {"neg", "zero", "pos"}

\* sigma12 / (sigma1_sq + eps), sigma1_sq >= 0: the sign of sigma12.
gain(sigma12) == sigma12

\* sigma2_sq - g * sigma12, sigma2_sq >= 0: g * sigma12 is 0 where sigma12 is
\* 0 and positive elsewhere, so the difference is sigma2_sq itself or any
\* class up to it.
sv_sq_classes(sigma2_sq, sigma12) ==
  IF sigma12 = "zero" THEN {sigma2_sq}
  ELSE {v \in VarClasses : Rank(v) <= Rank(sigma2_sq)}

\* The arrays the four rules work on.
Arrays(r) == [sigma1_sq |-> r.sigma1_sq, sigma2_sq |-> r.sigma2_sq, g |-> r.g, sv_sq |-> r.sv_sq]

\* g[sigma1_sq < eps] = 0; sv_sq[sigma1_sq < eps] = sigma2_sq[sigma1_sq < eps];
\* sigma1_sq[sigma1_sq < eps] = 0
rule_sigma1_sq(m) ==
  [m EXCEPT !.g = assign_where(m.g, below_eps(m.sigma1_sq), full(Len(m.g), "zero")),
            !.sv_sq = assign_where(m.sv_sq, below_eps(m.sigma1_sq), m.sigma2_sq),
            !.sigma1_sq = assign_where(m.sigma1_sq, below_eps(m.sigma1_sq), full(Len(m.g), "zero"))]

\* g[sigma2_sq < eps] = 0; sv_sq[sigma2_sq < eps] = 0
rule_sigma2_sq(m) ==
  [m EXCEPT !.g = assign_where(m.g, below_eps(m.sigma2_sq), full(Len(m.g), "zero")),
            !.sv_sq = assign_where(m.sv_sq, below_eps(m.sigma2_sq), full(Len(m.g), "zero"))]

\* sv_sq[g < 0] = sigma2_sq[g < 0] only: g keeps its negative values.
rule_g_keeps_negative(m) ==
  [m EXCEPT !.sv_sq = assign_where(m.sv_sq, is_negative(m.g), m.sigma2_sq)]

\* sv_sq[g < 0] = sigma2_sq[g < 0]; g[g < 0] = 0
rule_g(m) ==
  [m EXCEPT !.sv_sq = assign_where(m.sv_sq, is_negative(m.g), m.sigma2_sq),
            !.g = assign_where(m.g, is_negative(m.g), full(Len(m.g), "zero"))]

\* sv_sq[sv_sq <= eps] = eps
rule_sv_sq(m) ==
  [m EXCEPT !.sv_sq = assign_where(m.sv_sq, at_most_eps(m.sv_sq), full(Len(m.g), "eps"))]

\* Lines 262-271, in order.
zeroing_rules(m) == rule_sv_sq(rule_g(rule_sigma2_sq(rule_sigma1_sq(m))))

\* The sign of self.sigma, the variance of the visual noise: zero or positive.
sigma_class(self) == IF self.sigma = 0 THEN "zero" ELSE "pos"

\* v + sigma for a variance v: "neg", "zero", "pos", or "other" where the
\* classes do not decide the sign.
plus_sigma(v, sigma) ==
  IF Rank(v) >= Rank("tiny") THEN "pos"
  ELSE IF sigma = "zero" THEN v
  ELSE IF v = "zero" THEN "pos"
  ELSE "other"

\* x / d in floating point, x a variance that is not negative: 0 / 0 is nan
\* and x / 0 is inf, without an exception.
divide(x, d) ==
  CASE d = "pos" -> IF x = "zero" THEN "zero" ELSE "pos"
    [] d = "zero" -> IF x = "zero" THEN "nan" ELSE "inf"
    [] d = "neg" -> IF x = "zero" THEN "zero" ELSE "other"
    [] d = "other" -> "other"

\* g ** 2 * q
times_g_squared(g, q) ==
  IF q = "nan" THEN "nan"
  ELSE IF g = "zero" THEN (IF q = "inf" THEN "nan" ELSE IF q = "other" THEN "other" ELSE "zero")
  ELSE q

\* 1 + q: "one", "above" (> 1, finite), "inf", "nan", or "other".
one_plus(q) ==
  CASE q = "zero" -> "one"
    [] q = "pos" -> "above"
    [] q = "inf" -> "inf"
    [] q = "nan" -> "nan"
    [] q = "other" -> "other"

\* np.log10
log10(a) ==
  CASE a = "one" -> "zero"
    [] a = "above" -> "pos"
    [] a = "inf" -> "inf"
    [] a = "nan" -> "nan"
    [] a = "other" -> "other"

\* 1 + g ** 2 * (sigma1_sq / (sv_sq + self.sigma)) at every pixel.
numerator_args(m, sigma) ==
  SubSeq([k \in 1..Len(m.g) |->
            one_plus(times_g_squared(m.g[k], divide(m.sigma1_sq[k], plus_sigma(m.sv_sq[k], sigma))))],
         1, Len(m.g))

\* 1 + (sigma1_sq / self.sigma) at every pixel.
denominator_args(m, sigma) ==
  SubSeq([k \in 1..Len(m.g) |-> one_plus(divide(m.sigma1_sq[k], sigma))], 1, Len(m.g))

\* acc += np.sum(np.log10(args)): the kinds of the non-zero terms join acc.
add_logs(acc, args) == acc \cup ({log10(args[k]) : k \in 1..Len(args)} \ {"zero"})

\* The value of a sum of logarithms of these kinds.
total(acc) ==
  IF "nan" \in acc THEN "nan"
  ELSE IF "other" \in acc THEN "other"
  ELSE IF "inf" \in acc THEN "inf"
  ELSE IF "pos" \in acc THEN "pos"
  ELSE "zero"

\* numerator / denominator in floating point.
divide_totals(num, den) ==
  IF num = "nan" \/ den = "nan" THEN "nan"
  ELSE IF num = "other" \/ den = "other" THEN "other"
  ELSE IF den = "zero" THEN (IF num = "zero" THEN "nan" ELSE "inf")
  ELSE IF den = "inf" THEN (IF num = "inf" THEN "nan" ELSE "zero")
  ELSE num

\* np.mean of the channel results: nan when one of them is.
mean_of(results) ==
  IF \E k \in 1..Len(results) : results[k] = "nan" THEN "nan"
  ELSE IF \E k \in 1..Len(results) : results[k] = "other" THEN "other"
  ELSE IF \E k \in 1..Len(results) : results[k] # "zero" THEN "pos"
  ELSE "zero"

\* np.nan_to_num(vifp_results)
nan_to_num_all(results) ==
  SubSeq([k \in 1..Len(results) |-> nan_to_num(results[k])], 1, Len(results))


\* sigma1_sq[sigma1_sq < 0] = 0
clamp_negative(x) == assign_where(x, is_negative(x), full(Len(x), "zero"))

\* The two channels vifp_single_channel works on in channel ch of the loop.
VifpChannels(ch) ==
  <<Channel(as_floats(images, pair)[1], ch), Channel(as_floats(images, pair)[2], ch)>>

\* Lines 279-284 of VIFP.analyze: the channel count and the empty results.
VifpBegin ==
  /\ run.pc = "idle"
  /\ last = NoOp
  /\ run' = [Idle EXCEPT !.pc = "channel", !.ch_num = ch_num(vifp.channels_num, images, pair)]
  /\ UNCHANGED <<images, pair, ssim, uiqi, vifp, sam, last>>

\* Lines 285-286 and 234-236: the next channel is sliced out of both arrays
\* (IndexError as in ChannelIndexOK) and vifp_single_channel starts on it.
VifpChannel ==
  /\ run.pc = "channel"
  /\ run.ch < run.ch_num
  /\ IF \E k \in 1..2 : ~ChannelIndexOK(as_floats(images, pair)[k].shape, run.ch)
       THEN /\ run' = [Idle EXCEPT !.pc = "done"]
            /\ last' = Call("VIFP", <<>>, Raise("IndexError"))
       ELSE /\ run' = [run EXCEPT !.pc = "scale", !.scale = 1, !.N = <<>>,
                                  !.numerator = {}, !.denominator = {}]
            /\ UNCHANGED last
  /\ UNCHANGED <<images, pair, ssim, uiqi, vifp, sam>>

\* Lines 238-257 of one scale: N, the filters (mu1 * mu2 raises ValueError
\* when the channels cannot be broadcast) and the two variances, negative
\* values set to 0.  Every pixel is given the same statistics.
VifpVariancesOf(c1, c2) ==
  IF ~Broadcastable(c1.shape, c2.shape)
    THEN /\ run' = [Idle EXCEPT !.pc = "done"]
         /\ last' = Call("VIFP", <<>>, Raise("ValueError"))
    ELSE /\ \E s1 \in sigma_sq_classes(c1), s2 \in sigma_sq_classes(c2) :
              run' = [run EXCEPT !.pc = "gain",
                                 !.N = Append(@, vifp_N(run.scale)),
                                 !.sigma1_sq = clamp_negative(full(Size(BroadcastShape(c1.shape, c2.shape)), s1)),
                                 !.sigma2_sq = clamp_negative(full(Size(BroadcastShape(c1.shape, c2.shape)), s2)),
                                 !.sigma12 = <<>>, !.g = <<>>, !.sv_sq = <<>>, !.log_args = <<>>]
         /\ UNCHANGED last

VifpVariances ==
  /\ run.pc = "scale"
  /\ run.scale \in Scales
  /\ VifpVariancesOf(VifpChannels(run.ch)[1], VifpChannels(run.ch)[2])
  /\ UNCHANGED <<images, pair, ssim, uiqi, vifp, sam>>

\* Lines 254, 259 and 260: sigma12, g and sv_sq.
VifpGainOf(c1, c2) ==
  \E s12 \in sigma12_classes(c1, c2) : \E sv \in sv_sq_classes(run.sigma2_sq[1], s12) :
    run' = [run EXCEPT !.pc = "rules",
                       !.sigma12 = full(Len(run.sigma1_sq), s12),
                       !.g = full(Len(run.sigma1_sq), gain(s12)),
                       !.sv_sq = full(Len(run.sigma1_sq), sv)]

VifpGain ==
  /\ run.pc = "gain"
  /\ VifpGainOf(VifpChannels(run.ch)[1], VifpChannels(run.ch)[2])
  /\ UNCHANGED <<images, pair, ssim, uiqi, vifp, sam, last>>

\* Lines 262-274 with the arrays m the rules leave and the arguments of the
\* two logarithms.
VifpAccumulate(m, args1, args2) ==
  run' = [run EXCEPT !.pc = "scale", !.scale = @ + 1,
                     !.sigma1_sq = m.sigma1_sq, !.g = m.g, !.sv_sq = m.sv_sq,
                     !.log_args = <<args1, args2>>,
                     !.numerator = add_logs(@, args1),
                     !.denominator = add_logs(@, args2)]

VifpRulesOn(m) ==
  VifpAccumulate(m, numerator_args(m, sigma_class(vifp)), denominator_args(m, sigma_class(vifp)))

\* Lines 262-274: the zeroing rules and the two sums of the scale.
VifpRules ==
  /\ run.pc = "rules"
  /\ VifpRulesOn(zeroing_rules(Arrays(run)))
  /\ UNCHANGED <<images, pair, ssim, uiqi, vifp, sam, last>>

\* Lines 276 and 287: after the last scale, numerator / denominator is the
\* channel's result.
VifpChannelEnd ==
  /\ run.pc = "scale"
  /\ run.scale \notin Scales
  /\ run' = [run EXCEPT !.pc = "channel", !.ch = @ + 1,
                        !.vifp_results =
                          Append(@, divide_totals(total(run.numerator), total(run.denominator)))]
  /\ UNCHANGED <<images, pair, ssim, uiqi, vifp, sam, last>>

\* Line 289: np.mean(np.nan_to_num(vifp_results)) is returned.
VifpEnd ==
  /\ run.pc = "channel"
  /\ run.ch = run.ch_num
  /\ run' = [run EXCEPT !.pc = "done", !.mean = mean_of(nan_to_num_all(run.vifp_results))]
  /\ last' = Call("VIFP", <<>>, Return([tag |-> "vifp", args |-> <<run.ch_num>>]))
  /\ UNCHANGED <<images, pair, ssim, uiqi, vifp, sam>>

\* ------------------------------------------------------------- VIFP specification
\* VIFP.__init__: the fields are the arguments, unchecked.
VIFP_init(channels, sigma) == [channels_num |-> channels, sigma |-> sigma]

\* Loaded 8-bit images of one row, black or not, with one channel or two.
VifpImages ==
  {Buffer("uint8", <<1, w, c>>, a, a) : w \in {1, MaxPixDim}, c \in {1, 2}, a \in {0, MaxPix}}

\* A pair of images of one shape and a VIFP instance whose noise variance is
\* zero or positive, without a channel count or with one no image has.
InitVIFP ==
  /\ \E r \in VifpImages : \E m \in {x \in VifpImages : x.shape = r.shape} :
       images = <<r, m>>
  /\ pair = ImagePair(1, 2)
  /\ ssim = <<>>
  /\ uiqi = UIQI_default
  /\ \E channels \in {None, <<MaxChan>>}, sigma \in 0..MaxParam : vifp = VIFP_init(channels, sigma)
  /\ sam = SAM_default
  /\ run = Idle
  /\ last = NoOp

NextVIFP ==
  \/ VifpBegin
  \/ VifpChannel
  \/ VifpVariances
  \/ VifpGain
  \/ VifpRules
  \/ VifpChannelEnd
  \/ VifpEnd

SpecVIFP == InitVIFP /\ [][NextVIFP]_vars


\* The step that applies the zeroing rules of a scale and accumulates.
RulesStep == run.pc = "rules" /\ run'.pc = "scale"

IsBelowEps(v) == Rank(v) < Rank("eps")
AtLeastOne(a) == a \in {"one", "above", "inf"}

\* What the rules leave at every pixel, from the arrays before them (b) and
\* after them (a): g >= 0, sv_sq >= eps, sigma1_sq is 0 or >= eps, g is 0
\* where a variance was below eps, and g = 0, sv_sq = eps where both were.
RulesLeave(b, a) ==
  \A k \in 1..Len(b.g) :
    /\ a.g[k] \in {"zero", "pos"}
    /\ Rank(a.sv_sq[k]) >= Rank("eps")
    /\ a.sigma1_sq[k] = "zero" \/ Rank(a.sigma1_sq[k]) >= Rank("eps")
    /\ (IsBelowEps(b.sigma1_sq[k]) \/ IsBelowEps(b.sigma2_sq[k])) => a.g[k] = "zero"
    /\ (IsBelowEps(b.sigma1_sq[k]) /\ IsBelowEps(b.sigma2_sq[k])) =>
         (a.g[k] = "zero" /\ a.sv_sq[k] = "eps")

\* Both logarithm arguments are >= 1 at every pixel, and the scale adds
\* nothing negative to numerator and denominator.
LogsNotNegative(b, a) ==
  /\ \A k \in 1..Len(b.g) : AtLeastOne(a.log_args[1][k]) /\ AtLeastOne(a.log_args[2][k])
  /\ (a.numerator \ b.numerator) \subseteq {"pos", "inf"}
  /\ (a.denominator \ b.denominator) \subseteq {"pos", "inf"}

\* C14: in each scale, after the zeroing rules, every pixel has g >= 0,
\* sv_sq >= eps, sigma1_sq 0 or >= eps, g = 0 wherever sigma1_sq or sigma2_sq
\* was below eps, and g = 0, sv_sq = eps where both were; hence both
\* logarithm arguments are >= 1 and the scale adds non-negative amounts.
Claim_C14_RulesKeepLogsNonNegative ==
  [][RulesStep => (RulesLeave(run, run') /\ LogsNotNegative(run, run'))]_vars

\* The same for a positive noise variance, and the pixel invariants alone for
\* every noise variance.
Holds_C14_PositiveNoise ==
  [][RulesStep =>
       /\ RulesLeave(run, run')
       /\ vifp.sigma > 0 => LogsNotNegative(run, run')]_vars

\* A pixel with both variances below eps, one of them negative before line
\* 256, and a pixel with a negative g, have been through the rules.
Seen_C14_BothBelowEps ==
  /\ run.pc = "scale"
  /\ run.scale = 2
  /\ run.sigma2_sq[1] = "tiny"
  /\ run.sigma1_sq[1] = "zero"
  /\ run.sv_sq[1] = "eps"
  /\ vifp.sigma > 0

Seen_C14_NegativeGain ==
  /\ run.pc = "scale"
  /\ run.scale = 2
  /\ run.sigma12[1] = "neg"
  /\ run.sigma1_sq[1] = "big"
  /\ run.sigma2_sq[1] = "big"
  /\ run.g[1] = "zero"
  /\ run.sv_sq[1] = "big"
  /\ vifp.sigma > 0


\* vifp_single_channel has returned the result of channel run.ch - 1.
ChannelDone == run.pc = "channel" /\ run.ch >= 1

\* A scale with no informational content: sigma1_sq is 0 at every pixel when
\* the two sums are taken.
ZeroContentStep == RulesStep /\ \A k \in 1..Len(run'.sigma1_sq) : run'.sigma1_sq[k] = "zero"

AddsNothing == run'.numerator = run.numerator /\ run'.denominator = run.denominator

\* The four scales with N = 17, 9, 5, 3; a denominator of 0 only with a
\* numerator of 0, the quotient nan then and never infinite.
ChannelResultOK ==
  ChannelDone =>
    /\ run.N = <<17, 9, 5, 3>>
    /\ total(run.denominator) = "zero" => total(run.numerator) = "zero"
    /\ (total(run.numerator) = "zero" /\ total(run.denominator) = "zero") =>
         run.vifp_results[run.ch] = "nan"
    /\ run.vifp_results[run.ch] # "inf"

\* A channel of an all-zero reference, at the least, has no content:
\* numerator = denominator = 0.
BlackChannelIsZero ==
  (ChannelDone /\ AllZero(Channel(Ref, run.ch - 1))) =>
    (run.numerator = {} /\ run.denominator = {})

\* VIFP.analyze does not return nan, and nan channels count as 0 in the mean.
MeanOK ==
  (run.pc = "done" /\ IsReturn(last.out)) =>
    /\ Len(run.vifp_results) = run.ch_num
    /\ run.mean # "nan"
    /\ (\A k \in 1..Len(run.vifp_results) : run.vifp_results[k] \in {"nan", "zero"}) =>
         run.mean = "zero"

\* C17: a channel's result is numerator / denominator over the four scales
\* (N = 17, 9, 5, 3); a channel without informational content (sigma1_sq 0 at
\* every pixel of every scale) has numerator = denominator = 0 and a nan
\* quotient, which counts as 0 in the mean over the channels; VIFP.analyze
\* never returns nan; the denominator is 0 only when the numerator is, so no
\* channel result is infinite.
Claim_C17_ZeroContentCountsAsZero ==
  /\ [](ChannelResultOK /\ BlackChannelIsZero /\ MeanOK)
  /\ [][ZeroContentStep => AddsNothing]_vars

\* The same where the noise variance is positive; the results and the mean
\* for every noise variance.
Holds_C17_PositiveNoise ==
  /\ [](ChannelResultOK /\ MeanOK)
  /\ [](vifp.sigma > 0 => BlackChannelIsZero)
  /\ [][(vifp.sigma > 0 /\ ZeroContentStep) => AddsNothing]_vars

\* A two-channel pair has been analysed with a positive noise variance, one
\* channel without content (nan) and one with.
Seen_C17_NanChannelCounted ==
  /\ run.pc = "done"
  /\ vifp.sigma > 0
  /\ run.vifp_results = <<"nan", "pos">>
  /\ run.mean = "pos"

Seen_C17_BlackPair ==
  /\ run.pc = "done"
  /\ vifp.sigma > 0
  /\ AllZero(Ref)
  /\ run.vifp_results = <<"nan", "nan">>
  /\ run.mean = "zero"

====
